---- MODULE Spec2Model ----
(***************************************************************************)
(* Model of stormspotter/collect/utils.py.                                 *)
(*                                                                         *)
(* sqlite_writer is modelled as one process per concurrent call.  Every    *)
(* await of the coroutine is one step.  A driver call that has to take     *)
(* SQLite file locks (rollback-journal locking: SHARED, RESERVED, PENDING, *)
(* EXCLUSIVE) is split at the lock acquisitions, because every connection  *)
(* of aiosqlite runs in its own thread and the calls of different tasks    *)
(* overlap.  The expiry of the driver's busy timeout is not timed: a lock  *)
(* attempt that finds a conflicting lock may raise "database is locked".   *)
(*                                                                         *)
(* chunk is a generator; it is modelled by the steps of its iteration.     *)
(***************************************************************************)
EXTENDS Integers, Sequences, FiniteSets, TLC

\* Number of concurrent sqlite_writer calls.
NumTasks == 2
\* Number of "database is locked" errors the driver raises at commit.
MaxCommitBusy == 2

Tasks == 1..NumTasks

VARIABLES
    fileExists,   \* Path(output).exists()
    schema,       \* number of definitions of table results in the file
    rows,         \* committed rows of results, in commit order
    lock,         \* lock[t]: file lock held by the connection of call t
    pending,      \* pending[t]: rows inserted by t's connection, not committed
    conns,        \* conns[t]: connections call t holds open
    pc,           \* pc[t]: position of call t in sqlite_writer
    exc,          \* exc[t]: exception in flight in (or raised by) call t
    rec,          \* rec[t]: the argument res of call t
    attempts,     \* attempts[t]: times call t entered the schema block
    busyCount,    \* lock errors raised at commit so far
    cData,        \* chunk: the argument data, a list or the items of a dict
    cKind,        \* chunk: "list" or "dict", the type of data
    cSize,        \* chunk: the argument size
    cIdx,         \* chunk: the next value of range(0, len(data), size)
    cOut,         \* chunk: the chunks yielded so far
    cState,       \* chunk: state of the generator
    gArm,         \* gen_results_tables: arm_results, its items in dict order
    gGroup,       \* gen_results_tables: arm_results_group, the rows of each table
    gPc,          \* gen_results_tables: position in the function
    hSubs,        \* class hierarchy: hSubs[c] is c.__subclasses__()
    hCls,         \* get_all_subclasses: the argument cls
    hResult,      \* get_all_subclasses: the set returned
    hPc           \* get_all_subclasses: "call" before, "done" after the call

writerVars == <<fileExists, schema, rows, lock, pending, conns, pc, exc, rec, attempts,
                busyCount>>

chunkVars == <<cData, cKind, cSize, cIdx, cOut, cState>>

tableVars == <<gArm, gGroup, gPc>>

classVars == <<hSubs, hCls, hResult, hPc>>

vars == <<writerVars, chunkVars, tableVars, classVars>>

-----------------------------------------------------------------------------
(* Records and their msgpack encoding                                      *)

\* Code points of the one-letter keys used by the records.
Ord(c) == CASE c = "a" -> 97 [] c = "b" -> 98 [] OTHER -> 99

\* The record call t writes: {"a": 1}, {"b": 2}, then the lists [1..t].
GoodRecord(t) ==
    IF t = 1 THEN [k |-> "map", key |-> "a", val |-> 1]
    ELSE IF t = 2 THEN [k |-> "map", key |-> "b", val |-> 2]
    ELSE [k |-> "list", items |-> [i \in 1..t |-> i]]

\* A value msgpack has no encoding for, e.g. object().
BadRecord == [k |-> "object"]

Encodable(r) == r.k \in {"map", "list"}

\* msgpack.dumps: fixmap of one fixstr key and a positive fixint, or a
\* fixarray of positive fixints.
Dumps(r) ==
    IF r.k = "map" THEN <<128 + 1, 160 + 1, Ord(r.key), r.val>>
    ELSE <<144 + Len(r.items)>> \o r.items

-----------------------------------------------------------------------------
(* The driver: SQLite file locks and the table                             *)

\* sqlite3.OperationalError and its instances the model raises.
OperationalError == {"locked", "no such table", "disk full"}

\* A SHARED lock is refused while another connection holds PENDING.
CanShare(t) == \A u \in Tasks \ {t} : lock[u] # "pending"

\* A RESERVED lock is refused while another connection is the writer.
CanReserve(t) == \A u \in Tasks \ {t} : lock[u] \notin {"reserved", "pending"}

\* An EXCLUSIVE lock is refused while another connection holds any lock.
CanExclusive(t) == \A u \in Tasks \ {t} : lock[u] = "none"

MaxOf(S) == CHOOSE m \in S : \A x \in S : x <= m

\* Mutant: the id is taken from the committed rows alone.
NextIdCommitted(t) == MaxOf({0} \cup {rows[i].id : i \in DOMAIN rows}) + 1

\* id INTEGER PRIMARY KEY AUTOINCREMENT: one more than the largest id the
\* connection sees (committed rows and its own uncommitted rows).
NextId(t) ==
    MaxOf({0} \cup {rows[i].id : i \in DOMAIN rows}
              \cup {pending[t][i].id : i \in DOMAIN pending[t]}) + 1

-----------------------------------------------------------------------------
(* sqlite_writer, schema step (lines 25-34)                                *)

\* Mutant: the schema block is entered whether or not the path exists.
CheckExistsAlways(t) ==
    /\ pc[t] = "start"
    /\ pc' = [pc EXCEPT ![t] = "s_connect"]
    /\ UNCHANGED <<fileExists, schema, rows, lock, pending, conns, exc, rec, attempts, busyCount>>
    /\ UNCHANGED <<chunkVars, tableVars, classVars>>

\* line 25: if not Path(output).exists()
CheckExists(t) ==
    /\ pc[t] = "start"
    /\ pc' = [pc EXCEPT ![t] = IF fileExists THEN "w_connect" ELSE "s_connect"]
    /\ UNCHANGED <<fileExists, schema, rows, lock, pending, conns, exc, rec, attempts, busyCount>>
    /\ UNCHANGED <<chunkVars, tableVars, classVars>>

\* line 28: aiosqlite.connect(output); sqlite3 creates the (empty) file.
SchemaConnect(t) ==
    /\ pc[t] = "s_connect"
    /\ fileExists' = TRUE
    /\ conns' = [conns EXCEPT ![t] = @ + 1]
    /\ attempts' = [attempts EXCEPT ![t] = @ + 1]
    /\ pc' = [pc EXCEPT ![t] = "s_create"]
    /\ UNCHANGED <<schema, rows, lock, pending, exc, rec, busyCount>>
    /\ UNCHANGED <<chunkVars, tableVars, classVars>>

\* lines 29-33: CREATE TABLE IF NOT EXISTS takes a SHARED lock to read the
\* schema.
SchemaCreateBegin(t) ==
    /\ pc[t] = "s_create"
    /\ CanShare(t)
    /\ lock' = [lock EXCEPT ![t] = "shared"]
    /\ pc' = [pc EXCEPT ![t] = "s_reserve"]
    /\ UNCHANGED <<fileExists, schema, rows, pending, conns, exc, rec, attempts, busyCount>>
    /\ UNCHANGED <<chunkVars, tableVars, classVars>>

\* lines 29-33: IF NOT EXISTS: the table is there, the statement does nothing.
SchemaCreateNoop(t) ==
    /\ pc[t] = "s_reserve"
    /\ schema > 0
    /\ lock' = [lock EXCEPT ![t] = "none"]
    /\ pc' = [pc EXCEPT ![t] = "s_commit"]
    /\ UNCHANGED <<fileExists, schema, rows, pending, conns, exc, rec, attempts, busyCount>>
    /\ UNCHANGED <<chunkVars, tableVars, classVars>>

\* lines 29-33: the SHARED lock is refused: database is locked.
SchemaCreateBusy(t) ==
    /\ pc[t] = "s_create"
    /\ ~CanShare(t)
    /\ exc' = [exc EXCEPT ![t] = "locked"]
    /\ pc' = [pc EXCEPT ![t] = "s_exc"]
    /\ UNCHANGED <<fileExists, schema, rows, lock, pending, conns, rec, attempts, busyCount>>
    /\ UNCHANGED <<chunkVars, tableVars, classVars>>

\* lines 29-33: the statement becomes the writer (RESERVED).
SchemaReserve(t) ==
    /\ pc[t] = "s_reserve"
    /\ schema = 0
    /\ CanReserve(t)
    /\ lock' = [lock EXCEPT ![t] = "reserved"]
    /\ pc' = [pc EXCEPT ![t] = "s_excl"]
    /\ UNCHANGED <<fileExists, schema, rows, pending, conns, exc, rec, attempts, busyCount>>
    /\ UNCHANGED <<chunkVars, tableVars, classVars>>

\* lines 29-33: another connection is the writer; the statement drops its
\* SHARED lock and the busy timeout expires: database is locked.
SchemaReserveBusy(t) ==
    /\ pc[t] = "s_reserve"
    /\ schema = 0
    /\ ~CanReserve(t)
    /\ lock' = [lock EXCEPT ![t] = "none"]
    /\ exc' = [exc EXCEPT ![t] = "locked"]
    /\ pc' = [pc EXCEPT ![t] = "s_exc"]
    /\ UNCHANGED <<fileExists, schema, rows, pending, conns, rec, attempts, busyCount>>
    /\ UNCHANGED <<chunkVars, tableVars, classVars>>

\* lines 29-33: as above, but the busy handler tries the statement again.
SchemaReserveRetry(t) ==
    /\ pc[t] = "s_reserve"
    /\ schema = 0
    /\ ~CanReserve(t)
    /\ lock' = [lock EXCEPT ![t] = "none"]
    /\ pc' = [pc EXCEPT ![t] = "s_create"]
    /\ UNCHANGED <<fileExists, schema, rows, pending, conns, exc, rec, attempts, busyCount>>
    /\ UNCHANGED <<chunkVars, tableVars, classVars>>

\* lines 29-33: the statement runs in autocommit mode (sqlite3 opens no
\* transaction for DDL): under the EXCLUSIVE lock the table is written.
SchemaCreateCommit(t) ==
    /\ pc[t] = "s_excl"
    /\ CanExclusive(t)
    /\ schema' = schema + 1
    /\ lock' = [lock EXCEPT ![t] = "none"]
    /\ pc' = [pc EXCEPT ![t] = "s_commit"]
    /\ UNCHANGED <<fileExists, rows, pending, conns, exc, rec, attempts, busyCount>>
    /\ UNCHANGED <<chunkVars, tableVars, classVars>>

\* lines 29-33: readers hold SHARED locks; the statement waits with PENDING.
SchemaCreateWait(t) ==
    /\ pc[t] = "s_excl"
    /\ ~CanExclusive(t)
    /\ lock[t] = "reserved"
    /\ lock' = [lock EXCEPT ![t] = "pending"]
    /\ UNCHANGED <<fileExists, schema, rows, pending, conns, pc, exc, rec, attempts, busyCount>>
    /\ UNCHANGED <<chunkVars, tableVars, classVars>>

\* lines 29-33: readers hold SHARED locks and the busy timeout expires: the
\* statement is rolled back, database is locked.
SchemaCreateLocked(t) ==
    /\ pc[t] = "s_excl"
    /\ ~CanExclusive(t)
    /\ lock' = [lock EXCEPT ![t] = "none"]
    /\ exc' = [exc EXCEPT ![t] = "locked"]
    /\ pc' = [pc EXCEPT ![t] = "s_exc"]
    /\ UNCHANGED <<fileExists, schema, rows, pending, conns, rec, attempts, busyCount>>
    /\ UNCHANGED <<chunkVars, tableVars, classVars>>

\* line 34: db.commit() with no transaction open does nothing.
SchemaCommit(t) ==
    /\ pc[t] = "s_commit"
    /\ pc' = [pc EXCEPT ![t] = "s_close"]
    /\ UNCHANGED <<fileExists, schema, rows, lock, pending, conns, exc, rec, attempts, busyCount>>
    /\ UNCHANGED <<chunkVars, tableVars, classVars>>

\* Mutant: the schema connection is not closed on the normal path.
SchemaCloseLeak(t) ==
    /\ pc[t] = "s_close"
    /\ pc' = [pc EXCEPT ![t] = "w_connect"]
    /\ UNCHANGED <<fileExists, schema, rows, lock, pending, conns, exc, rec, attempts, busyCount>>
    /\ UNCHANGED <<chunkVars, tableVars, classVars>>

\* line 28: normal exit of "async with": the connection is closed.
SchemaClose(t) ==
    /\ pc[t] = "s_close"
    /\ conns' = [conns EXCEPT ![t] = @ - 1]
    /\ pc' = [pc EXCEPT ![t] = "w_connect"]
    /\ UNCHANGED <<fileExists, schema, rows, lock, pending, exc, rec, attempts, busyCount>>
    /\ UNCHANGED <<chunkVars, tableVars, classVars>>

\* lines 27-28: an exception leaves "async with" (the connection is closed)
\* and reaches suppress(OperationalError).
SchemaSuppress(t) ==
    /\ pc[t] = "s_exc"
    /\ conns' = [conns EXCEPT ![t] = @ - 1]
    /\ IF exc[t] \in OperationalError
       THEN /\ exc' = [exc EXCEPT ![t] = "none"]
            /\ pc' = [pc EXCEPT ![t] = "w_connect"]
       ELSE /\ pc' = [pc EXCEPT ![t] = "raised"]
            /\ UNCHANGED exc
    /\ UNCHANGED <<fileExists, schema, rows, lock, pending, rec, attempts, busyCount>>
    /\ UNCHANGED <<chunkVars, tableVars, classVars>>

-----------------------------------------------------------------------------
(* sqlite_writer, write step (lines 36-44)                                 *)

\* line 36: aiosqlite.connect(output)
WriteConnect(t) ==
    /\ pc[t] = "w_connect"
    /\ fileExists' = TRUE
    /\ conns' = [conns EXCEPT ![t] = @ + 1]
    /\ pc' = [pc EXCEPT ![t] = "loop"]
    /\ UNCHANGED <<schema, rows, lock, pending, exc, rec, attempts, busyCount>>
    /\ UNCHANGED <<chunkVars, tableVars, classVars>>

\* line 41: msgpack.dumps(res), evaluated again in every iteration.
Serialize(t) ==
    /\ pc[t] = "loop"
    /\ Encodable(rec[t])
    /\ pc' = [pc EXCEPT ![t] = "insert"]
    /\ UNCHANGED <<fileExists, schema, rows, lock, pending, conns, exc, rec, attempts, busyCount>>
    /\ UNCHANGED <<chunkVars, tableVars, classVars>>

\* lines 40-42: INSERT on a connection that is not the writer yet takes a
\* SHARED lock to read the schema.
InsertBegin(t) ==
    /\ pc[t] = "insert"
    /\ lock[t] = "none"
    /\ CanShare(t)
    /\ lock' = [lock EXCEPT ![t] = "shared"]
    /\ pc' = [pc EXCEPT ![t] = "i_reserve"]
    /\ UNCHANGED <<fileExists, schema, rows, pending, conns, exc, rec, attempts, busyCount>>
    /\ UNCHANGED <<chunkVars, tableVars, classVars>>

\* lines 40-42: the file has no table results: OperationalError, no such table.
InsertNoTable(t) ==
    /\ pc[t] = "i_reserve"
    /\ schema = 0
    /\ lock' = [lock EXCEPT ![t] = "none"]
    /\ exc' = [exc EXCEPT ![t] = "no such table"]
    /\ pc' = [pc EXCEPT ![t] = "w_exc"]
    /\ UNCHANGED <<fileExists, schema, rows, pending, conns, rec, attempts, busyCount>>
    /\ UNCHANGED <<chunkVars, tableVars, classVars>>

\* lines 40-42: the SHARED lock is refused: database is locked.
InsertBusy(t) ==
    /\ pc[t] = "insert"
    /\ lock[t] = "none"
    /\ ~CanShare(t)
    /\ exc' = [exc EXCEPT ![t] = "locked"]
    /\ pc' = [pc EXCEPT ![t] = "w_exc"]
    /\ UNCHANGED <<fileExists, schema, rows, lock, pending, conns, rec, attempts, busyCount>>
    /\ UNCHANGED <<chunkVars, tableVars, classVars>>

\* The row INSERT adds to the connection's open transaction.
InsertedRow(t) == [id |-> NextId(t), payload |-> Dumps(rec[t]), by |-> t]

\* lines 40-42: the connection becomes the writer and inserts the row into
\* its transaction.
InsertReserve(t) ==
    /\ pc[t] = "i_reserve"
    /\ schema > 0
    /\ CanReserve(t)
    /\ lock' = [lock EXCEPT ![t] = "reserved"]
    /\ pending' = [pending EXCEPT ![t] = Append(@, InsertedRow(t))]
    /\ pc' = [pc EXCEPT ![t] = "commit"]
    /\ UNCHANGED <<fileExists, schema, rows, conns, exc, rec, attempts, busyCount>>
    /\ UNCHANGED <<chunkVars, tableVars, classVars>>

\* lines 40-42: another connection is the writer: database is locked.
InsertLocked(t) ==
    /\ pc[t] = "i_reserve"
    /\ schema > 0
    /\ ~CanReserve(t)
    /\ lock' = [lock EXCEPT ![t] = "none"]
    /\ exc' = [exc EXCEPT ![t] = "locked"]
    /\ pc' = [pc EXCEPT ![t] = "w_exc"]
    /\ UNCHANGED <<fileExists, schema, rows, pending, conns, rec, attempts, busyCount>>
    /\ UNCHANGED <<chunkVars, tableVars, classVars>>

\* lines 40-42: INSERT on a connection whose transaction is still open after
\* a failed commit: the row is added to that transaction.
InsertAgain(t) ==
    /\ pc[t] = "insert"
    /\ lock[t] \in {"reserved", "pending"}
    /\ pending' = [pending EXCEPT ![t] = Append(@, InsertedRow(t))]
    /\ pc' = [pc EXCEPT ![t] = "commit"]
    /\ UNCHANGED <<fileExists, schema, rows, lock, conns, exc, rec, attempts, busyCount>>
    /\ UNCHANGED <<chunkVars, tableVars, classVars>>

\* lines 43-44: db.commit() takes the EXCLUSIVE lock, writes the rows of
\* the transaction and releases the locks; then break.
Commit(t) ==
    /\ pc[t] = "commit"
    /\ CanExclusive(t)
    /\ rows' = rows \o pending[t]
    /\ pending' = [pending EXCEPT ![t] = <<>>]
    /\ lock' = [lock EXCEPT ![t] = "none"]
    /\ pc' = [pc EXCEPT ![t] = "w_close"]
    /\ UNCHANGED <<fileExists, schema, conns, exc, rec, attempts, busyCount>>
    /\ UNCHANGED <<chunkVars, tableVars, classVars>>

\* line 43: readers hold SHARED locks; the commit waits with PENDING.
CommitWait(t) ==
    /\ pc[t] = "commit"
    /\ ~CanExclusive(t)
    /\ lock[t] = "reserved"
    /\ lock' = [lock EXCEPT ![t] = "pending"]
    /\ UNCHANGED <<fileExists, schema, rows, pending, conns, pc, exc, rec, attempts, busyCount>>
    /\ UNCHANGED <<chunkVars, tableVars, classVars>>

\* line 43: readers hold SHARED locks and the busy timeout expires:
\* database is locked.  The transaction stays open, the PENDING lock is kept.
CommitLocked(t) ==
    /\ pc[t] = "commit"
    /\ ~CanExclusive(t)
    /\ busyCount < MaxCommitBusy
    /\ busyCount' = busyCount + 1
    /\ lock' = [lock EXCEPT ![t] = "pending"]
    /\ exc' = [exc EXCEPT ![t] = "locked"]
    /\ pc' = [pc EXCEPT ![t] = "w_exc"]
    /\ UNCHANGED <<fileExists, schema, rows, pending, conns, rec, attempts>>
    /\ UNCHANGED <<chunkVars, tableVars, classVars>>

\* Mutant: break placed after the "with suppress" block, so that a suppressed
\* exception leaves the loop.
WriteSuppressBreaks(t) ==
    /\ pc[t] = "w_exc"
    /\ pc' = [pc EXCEPT ![t] = "w_close"]
    /\ exc' = [exc EXCEPT ![t] = IF @ \in OperationalError THEN "none" ELSE @]
    /\ UNCHANGED <<fileExists, schema, rows, lock, pending, conns, rec, attempts, busyCount>>
    /\ UNCHANGED <<chunkVars, tableVars, classVars>>

\* Mutant: suppress(Exception), every exception is retried.
WriteSuppressAll(t) ==
    /\ pc[t] = "w_exc"
    /\ exc' = [exc EXCEPT ![t] = "none"]
    /\ pc' = [pc EXCEPT ![t] = "loop"]
    /\ UNCHANGED <<fileExists, schema, rows, lock, pending, conns, rec, attempts, busyCount>>
    /\ UNCHANGED <<chunkVars, tableVars, classVars>>

\* line 39: suppress(OperationalError) around insert and commit; a
\* suppressed exception falls through to the next iteration of while True.
WriteSuppress(t) ==
    /\ pc[t] = "w_exc"
    /\ IF exc[t] \in OperationalError
       THEN /\ exc' = [exc EXCEPT ![t] = "none"]
            /\ pc' = [pc EXCEPT ![t] = "loop"]
       ELSE /\ pc' = [pc EXCEPT ![t] = "w_close"]
            /\ UNCHANGED exc
    /\ UNCHANGED <<fileExists, schema, rows, lock, pending, conns, rec, attempts, busyCount>>
    /\ UNCHANGED <<chunkVars, tableVars, classVars>>

\* line 36: exit of "async with": the connection is closed, which rolls an
\* open transaction back and releases its locks; the call returns or raises.
WriteClose(t) ==
    /\ pc[t] = "w_close"
    /\ conns' = [conns EXCEPT ![t] = @ - 1]
    /\ pending' = [pending EXCEPT ![t] = <<>>]
    /\ lock' = [lock EXCEPT ![t] = "none"]
    /\ pc' = [pc EXCEPT ![t] = IF exc[t] = "none" THEN "returned" ELSE "raised"]
    /\ UNCHANGED <<fileExists, schema, rows, exc, rec, attempts, busyCount>>
    /\ UNCHANGED <<chunkVars, tableVars, classVars>>

-----------------------------------------------------------------------------
(* Failures other than lock contention inside the schema and insert paths  *)

\* line 36: the connect of the write step raises database is locked; it is
\* outside "with suppress" and "while True".
WriteConnectLocked(t) ==
    /\ pc[t] = "w_connect"
    /\ \E u \in Tasks \ {t} : lock[u] \in {"reserved", "pending"}
    /\ exc' = [exc EXCEPT ![t] = "locked"]
    /\ pc' = [pc EXCEPT ![t] = "raised"]
    /\ UNCHANGED <<fileExists, schema, rows, lock, pending, conns, rec, attempts, busyCount>>
    /\ UNCHANGED <<chunkVars, tableVars, classVars>>

\* line 41: msgpack.dumps(res) raises TypeError.
SerializeFail(t) ==
    /\ pc[t] = "loop"
    /\ ~Encodable(rec[t])
    /\ exc' = [exc EXCEPT ![t] = "TypeError"]
    /\ pc' = [pc EXCEPT ![t] = "w_exc"]
    /\ UNCHANGED <<fileExists, schema, rows, lock, pending, conns, rec, attempts, busyCount>>
    /\ UNCHANGED <<chunkVars, tableVars, classVars>>

\* lines 29-33: the statement fails with a sqlite3.DatabaseError that is no
\* OperationalError (file is not a database).
SchemaCreateFatal(t) ==
    /\ pc[t] = "s_reserve"
    /\ lock' = [lock EXCEPT ![t] = "none"]
    /\ exc' = [exc EXCEPT ![t] = "DatabaseError"]
    /\ pc' = [pc EXCEPT ![t] = "s_exc"]
    /\ UNCHANGED <<fileExists, schema, rows, pending, conns, rec, attempts, busyCount>>
    /\ UNCHANGED <<chunkVars, tableVars, classVars>>

\* lines 40-42: the INSERT fails for a reason other than a lock: the disk
\* is full (OperationalError) or the file is malformed (DatabaseError).
InsertFatal(t) ==
    /\ pc[t] = "i_reserve"
    /\ \E e \in {"disk full", "DatabaseError"} : exc' = [exc EXCEPT ![t] = e]
    /\ lock' = [lock EXCEPT ![t] = "none"]
    /\ pc' = [pc EXCEPT ![t] = "w_exc"]
    /\ UNCHANGED <<fileExists, schema, rows, pending, conns, rec, attempts, busyCount>>
    /\ UNCHANGED <<chunkVars, tableVars, classVars>>

\* line 43: the commit fails for a reason other than a lock; SQLite rolls
\* the transaction back.
CommitFatal(t) ==
    /\ pc[t] = "commit"
    /\ \E e \in {"disk full", "DatabaseError"} : exc' = [exc EXCEPT ![t] = e]
    /\ pending' = [pending EXCEPT ![t] = <<>>]
    /\ lock' = [lock EXCEPT ![t] = "none"]
    /\ pc' = [pc EXCEPT ![t] = "w_exc"]
    /\ UNCHANGED <<fileExists, schema, rows, conns, rec, attempts, busyCount>>
    /\ UNCHANGED <<chunkVars, tableVars, classVars>>

-----------------------------------------------------------------------------
(* chunk (lines 47-53)                                                     *)

Min(a, b) == IF a < b THEN a ELSE b

\* line 49: does range(0, n, step) still hold the value idx?  (idx is 0 or a
\* multiple of step; a negative step gives the empty range.)
InRange(idx, n, step) == step > 0 /\ idx < n

\* Mutant: data[idx : size], the stop of the slice not moved with idx.
ListSliceFixedStop(data, idx, size) == SubSeq(data, idx + 1, Min(size, Len(data)))

\* line 51: data[idx : idx + size]
ListSlice(data, idx, size) == SubSeq(data, idx + 1, Min(idx + size, Len(data)))

\* line 53: islice(data, size), the first size keys of the dict
Islice(data, size) == [i \in 1..Min(size, Len(data)) |-> data[i][1]]

\* data[key]
DictGet(data, key) == data[CHOOSE i \in DOMAIN data : data[i][1] = key][2]

\* line 53: {key: data[key] for key in islice(data, size)}, as the items of
\* the new dict in insertion order
DictSlice(data, idx, size) ==
    [i \in DOMAIN Islice(data, size) |->
        <<Islice(data, size)[i], DictGet(data, Islice(data, size)[i])>>]

\* lines 50-53: the chunk yielded for the value idx of the range
ChunkAt(kind, data, idx, size) ==
    IF kind = "list" THEN ListSlice(data, idx, size) ELSE DictSlice(data, idx, size)

\* line 47: the call of a generator function runs none of its body.
ChunkCall ==
    /\ cState = "idle"
    /\ cState' = "created"
    /\ UNCHANGED <<cData, cKind, cSize, cIdx, cOut>>
    /\ UNCHANGED <<writerVars, tableVars, classVars>>

\* line 49: the first next() evaluates range(0, len(data), 0): ValueError.
ChunkRangeError ==
    /\ cState = "created"
    /\ cSize = 0
    /\ cState' = "error"
    /\ UNCHANGED <<cData, cKind, cSize, cIdx, cOut>>
    /\ UNCHANGED <<writerVars, tableVars, classVars>>

\* lines 49-53: what next() does to the generator when it yields a chunk.
ChunkYieldStep ==
    /\ cState \in {"created", "suspended"}
    /\ cSize # 0
    /\ InRange(cIdx, Len(cData), cSize)
    /\ cOut' = Append(cOut, ChunkAt(cKind, cData, cIdx, cSize))
    /\ cIdx' = cIdx + cSize
    /\ cState' = "suspended"
    /\ UNCHANGED <<cData, cKind, cSize>>

\* line 49: what next() does to the generator when the range is exhausted.
ChunkStopStep ==
    /\ cState \in {"created", "suspended"}
    /\ cSize # 0
    /\ ~InRange(cIdx, Len(cData), cSize)
    /\ cState' = "done"
    /\ UNCHANGED <<cData, cKind, cSize, cIdx, cOut>>

\* lines 49-53: next() takes the next value of the range and yields a chunk.
ChunkYield ==
    /\ ChunkYieldStep
    /\ UNCHANGED <<writerVars, tableVars, classVars>>

\* line 49: next() finds the range exhausted: StopIteration.
ChunkStop ==
    /\ ChunkStopStep
    /\ UNCHANGED <<writerVars, tableVars, classVars>>

-----------------------------------------------------------------------------
(* gen_results_tables, the ARM tables (lines 84-102)                       *)

\* The key None of a Counter; the other keys are 1, 2, ...
NoneKey == 0

\* str(v) for v >= 0: the code points of the decimal digits
RECURSIVE Str(_)
Str(v) == IF v < 10 THEN <<48 + v>> ELSE Str(v \div 10) \o <<48 + (v % 10)>>

\* Order of the (key, count) tuples that sorted() uses.
ItemLess(a, b) == a[1] < b[1] \/ (a[1] = b[1] /\ a[2] < b[2])

\* sorted(): insertion of one item into a sorted list
RECURSIVE SortedInsert(_, _)
SortedInsert(x, ys) ==
    IF ys = <<>> THEN <<x>>
    ELSE IF ItemLess(x, Head(ys)) THEN <<x>> \o ys
    ELSE <<Head(ys)>> \o SortedInsert(x, Tail(ys))

\* line 89: sorted(arm_results.items())
RECURSIVE Sorted(_)
Sorted(items) == IF items = <<>> THEN <<>> ELSE SortedInsert(Head(items), Sorted(Tail(items)))

\* line 87: arm_results.pop(None, None)
PopNone(items) == SelectSeq(items, LAMBDA it : it[1] # NoneKey)

\* Mutant: len(arm_results) // 3, the + 1 forgotten.
ArmChunkSizeNoPlus(n) == n \div 3

\* line 89: len(arm_results) // 3 + 1
ArmChunkSize(n) == n \div 3 + 1

\* lines 91-101: the rows add_row(k, str(v)) puts into one table
TableRows(chunked) == [i \in DOMAIN chunked |-> <<chunked[i][1], Str(chunked[i][2])>>]

\* line 85: if arm_results
GenArmCheck ==
    /\ gPc = "arm_if"
    /\ gPc' = (IF gArm # <<>> THEN "arm_pop" ELSE "done")
    /\ UNCHANGED <<gArm, gGroup>>
    /\ UNCHANGED <<writerVars, chunkVars, classVars>>

\* line 87: arm_results.pop(None, None)
GenArmPop ==
    /\ gPc = "arm_pop"
    /\ gArm' = PopNone(gArm)
    /\ gPc' = "arm_chunk"
    /\ UNCHANGED gGroup
    /\ UNCHANGED <<writerVars, chunkVars, classVars>>

\* lines 88-90: chunk(sorted(arm_results.items()), len(arm_results) // 3 + 1)
GenArmChunk ==
    /\ gPc = "arm_chunk"
    /\ cData' = Sorted(gArm)
    /\ cKind' = "list"
    /\ cSize' = ArmChunkSize(Len(gArm))
    /\ cIdx' = 0
    /\ cOut' = <<>>
    /\ cState' = "created"
    /\ gPc' = "arm_loop"
    /\ UNCHANGED <<gArm, gGroup>>
    /\ UNCHANGED <<writerVars, classVars>>

\* lines 88-102: the for loop takes the next chunk and appends its table.
GenArmTable ==
    /\ gPc = "arm_loop"
    /\ ChunkYieldStep
    /\ gGroup' = Append(gGroup, TableRows(ChunkAt(cKind, cData, cIdx, cSize)))
    /\ UNCHANGED <<gArm, gPc>>
    /\ UNCHANGED <<writerVars, classVars>>

\* line 88: the generator is exhausted, the for loop ends.
GenArmEnd ==
    /\ gPc = "arm_loop"
    /\ ChunkStopStep
    /\ gPc' = "done"
    /\ UNCHANGED <<gArm, gGroup>>
    /\ UNCHANGED <<writerVars, classVars>>

-----------------------------------------------------------------------------
(* get_all_subclasses (lines 15-19)                                        *)

\* Mutant: the subclasses of the subclasses only, set(cls.__subclasses__())
\* left out of the union.
RECURSIVE GetAllSubclassesDeep(_)
GetAllSubclassesDeep(cls) == UNION {GetAllSubclassesDeep(c) : c \in hSubs[cls]}

\* lines 17-19: set(cls.__subclasses__()).union([s for c in
\* cls.__subclasses__() for s in get_all_subclasses(c)])
RECURSIVE GetAllSubclasses(_)
GetAllSubclasses(cls) == hSubs[cls] \cup UNION {GetAllSubclasses(c) : c \in hSubs[cls]}

\* lines 15-19: the call returns the set.
GetAllSubclassesCall ==
    /\ hPc = "call"
    /\ hResult' = GetAllSubclasses(hCls)
    /\ hPc' = "done"
    /\ UNCHANGED <<hSubs, hCls>>
    /\ UNCHANGED <<writerVars, chunkVars, tableVars>>

-----------------------------------------------------------------------------
(* Specifications                                                          *)

\* The calls are about to start; the path is absent, or it is a store a
\* previous run created.
WriterInit ==
    /\ fileExists \in BOOLEAN
    /\ schema = (IF fileExists THEN 1 ELSE 0)
    /\ rows = <<>>
    /\ lock = [t \in Tasks |-> "none"]
    /\ pending = [t \in Tasks |-> <<>>]
    /\ conns = [t \in Tasks |-> 0]
    /\ pc = [t \in Tasks |-> "start"]
    /\ exc = [t \in Tasks |-> "none"]
    /\ rec \in {r \in [Tasks -> {GoodRecord(t) : t \in Tasks} \cup {BadRecord}] :
                  \A t \in Tasks : r[t] \in {GoodRecord(t), BadRecord}}
    /\ attempts = [t \in Tasks |-> 0]
    /\ busyCount = 0

\* No generator of chunk is in use.
ChunkIdle ==
    /\ cData = <<>>
    /\ cKind = "list"
    /\ cSize = 1
    /\ cIdx = 0
    /\ cOut = <<>>
    /\ cState = "idle"

\* gen_results_tables is not running.
TablesIdle ==
    /\ gArm = <<>>
    /\ gGroup = <<>>
    /\ gPc = "idle"

\* get_all_subclasses is not running.
ClassesIdle ==
    /\ hSubs = <<>>
    /\ hCls = 0
    /\ hResult = {}
    /\ hPc = "idle"

Init == WriterInit /\ ChunkIdle /\ TablesIdle /\ ClassesIdle

\* A step of call t in which the only failures are lock errors at the
\* statements and "no such table".
LockStep(t) ==
    \/ CheckExists(t)
    \/ SchemaConnect(t)
    \/ SchemaCreateBegin(t)
    \/ SchemaCreateBusy(t)
    \/ SchemaCreateNoop(t)
    \/ SchemaReserve(t)
    \/ SchemaReserveBusy(t)
    \/ SchemaReserveRetry(t)
    \/ SchemaCreateCommit(t)
    \/ SchemaCreateWait(t)
    \/ SchemaCreateLocked(t)
    \/ SchemaCommit(t)
    \/ SchemaClose(t)
    \/ SchemaSuppress(t)
    \/ WriteConnect(t)
    \/ Serialize(t)
    \/ InsertBegin(t)
    \/ InsertNoTable(t)
    \/ InsertBusy(t)
    \/ InsertReserve(t)
    \/ InsertLocked(t)
    \/ InsertAgain(t)
    \/ Commit(t)
    \/ CommitWait(t)
    \/ CommitLocked(t)
    \/ WriteSuppress(t)
    \/ WriteClose(t)

FaultStep(t) ==
    \/ WriteConnectLocked(t)
    \/ SerializeFail(t)
    \/ SchemaCreateFatal(t)
    \/ InsertFatal(t)
    \/ CommitFatal(t)

Next == \E t \in Tasks : LockStep(t) \/ FaultStep(t)

Spec == Init /\ [][Next]_vars

\* Every record can be encoded.
InitLock == Init /\ \A t \in Tasks : rec[t] = GoodRecord(t)

NextLock == \E t \in Tasks : LockStep(t)

\* The calls with lock contention as the only source of failures.
LockSpec == InitLock /\ [][NextLock]_vars

\* As LockSpec, on a path that does not exist.
InitFresh == InitLock /\ ~fileExists

FreshSpec == InitFresh /\ [][NextLock]_vars

\* The event loop and the connection threads run every call that can take a
\* step.
LiveSpec == InitFresh /\ [][NextLock]_vars /\ \A t \in Tasks : WF_vars(LockStep(t))

\* Longest list or dict given to chunk, and the largest size.
MaxLen == 3
MaxSize == 3

\* Lists over two values, of length 0..MaxLen.
Lists == UNION {[1..n -> {7, 8}] : n \in 0..MaxLen}

\* Dicts of 0..MaxLen distinct keys in any insertion order, as their items;
\* the value of key k is k + 10.
Dicts ==
    {[i \in DOMAIN ks |-> <<ks[i], ks[i] + 10>>] :
        ks \in {q \in UNION {[1..n -> 1..MaxLen] : n \in 0..MaxLen} :
                  \A i, j \in DOMAIN q : i # j => q[i] # q[j]}}

\* chunk is about to be called on a list or a dict with some size.
ChunkInit ==
    /\ WriterInit /\ ~fileExists /\ \A t \in Tasks : rec[t] = GoodRecord(t)
    /\ TablesIdle /\ ClassesIdle
    /\ cKind \in {"list", "dict"}
    /\ cData \in (IF cKind = "list" THEN Lists ELSE Dicts)
    /\ cSize \in -1..MaxSize
    /\ cIdx = 0
    /\ cOut = <<>>
    /\ cState = "idle"

ChunkNext == ChunkCall \/ ChunkRangeError \/ ChunkYield \/ ChunkStop

\* One generator of chunk, iterated to its end.
ChunkSpec == ChunkInit /\ [][ChunkNext]_vars

\* Number of keys other than None an ARM counter may hold.
MaxArmKeys == 5

\* Injective sequences over a set of at most n values.
InjectiveSeqs(S, n) ==
    {q \in UNION {[1..m -> S] : m \in 0..n} : \A i, j \in DOMAIN q : i # j => q[i] # q[j]}

\* Counters over the keys None, 1, ..., MaxArmKeys in any insertion order;
\* key k has been counted 4 * k + 1 times.
Counters ==
    {[i \in DOMAIN ks |-> <<ks[i], 4 * ks[i] + 1>>] :
        ks \in InjectiveSeqs(0..MaxArmKeys, MaxArmKeys + 1)}

\* gen_results_tables has reached line 84 with some ARM counter.
TablesInit ==
    /\ WriterInit /\ ~fileExists /\ \A t \in Tasks : rec[t] = GoodRecord(t)
    /\ ChunkIdle /\ ClassesIdle
    /\ gArm \in Counters
    /\ gGroup = <<>>
    /\ gPc = "arm_if"

TablesNext == GenArmCheck \/ GenArmPop \/ GenArmChunk \/ GenArmTable \/ GenArmEnd

TablesSpec == TablesInit /\ [][TablesNext]_vars

\* Number of classes of a hierarchy.
MaxClasses == 4

Classes == 1..MaxClasses

\* The acyclic hierarchies: a class is defined after its bases, so the
\* subclasses of class c are among c + 1, ..., MaxClasses.
Hierarchies == {h \in [Classes -> SUBSET Classes] : \A c \in Classes : \A d \in h[c] : d > c}

\* get_all_subclasses is about to be called on a class of some hierarchy.
ClassInit ==
    /\ WriterInit /\ ~fileExists /\ \A t \in Tasks : rec[t] = GoodRecord(t)
    /\ ChunkIdle /\ TablesIdle
    /\ hSubs \in Hierarchies
    /\ hCls \in Classes
    /\ hResult = {}
    /\ hPc = "call"

ClassNext == GetAllSubclassesCall

ClassSpec == ClassInit /\ [][ClassNext]_vars

-----------------------------------------------------------------------------
(* Claims                                                                  *)

AllReturned == \A t \in Tasks : pc[t] = "returned"

RowsOf(r) == {i \in DOMAIN rows : rows[i].payload = Dumps(r)}

\* C1: once all N calls have returned (lock errors at insert or commit being
\* the only failures) the table holds exactly N rows, one per record, each
\* payload the serialization of its record, with pairwise distinct ids.
C1_ExactlyOneRowPerRecord ==
    AllReturned =>
        /\ Len(rows) = NumTasks
        /\ \A t \in Tasks : Cardinality(RowsOf(rec[t])) = 1
        /\ \A i, j \in DOMAIN rows : i # j => rows[i].id # rows[j].id

SchemaPcs == {"start", "s_connect", "s_create", "s_reserve", "s_excl", "s_commit",
              "s_close", "s_exc"}

SchemaStepsDone == \A t \in Tasks : pc[t] \notin SchemaPcs

\* C2: when the callers have run the schema step on a path that did not
\* exist, the store has exactly one definition of the table and no caller
\* has had an error surfaced from that step.
C2_OneDefinitionNoError ==
    (SchemaStepsDone /\ \A t \in Tasks : attempts[t] = 1) =>
        /\ schema = 1
        /\ \A t \in Tasks : pc[t] = "raised" => exc[t] \notin OperationalError

\* C3: a call that has returned has a committed row, inserted by itself,
\* whose payload is the serialization of its record.
C3_ReturnedImpliesCommitted ==
    \A t \in Tasks :
        pc[t] = "returned" =>
            \E i \in DOMAIN rows : rows[i].by = t /\ rows[i].payload = Dumps(rec[t])

C3_Witness == \E t \in Tasks : pc[t] = "returned" /\ busyCount > 0

\* Errors of insert and commit that are not lock contention.
StorageFatal == {"disk full", "no such table", "DatabaseError"}

\* C4: an error at insert or commit that is not lock contention is not
\* retried: the handler leaves the loop and the error propagates.
C4_FatalNotRetried ==
    [][\A t \in Tasks :
          (pc[t] = "w_exc" /\ exc[t] \in StorageFatal) => pc'[t] \in {"w_exc", "w_close"}]_vars

\* C5: a lock error of the write step (connect, insert, commit) is never
\* surfaced to the caller.
C5_LockNeverSurfaced ==
    \A t \in Tasks : pc[t] = "raised" => exc[t] # "locked"

\* C6: on a path that did not exist, with lock errors as the only failures
\* and fair scheduling, every call eventually returns.
C6_EveryCallReturns == <>AllReturned

\* C7: a call whose record cannot be encoded never reaches the insert and
\* never has a row in the store, committed or not; its first pass through
\* the loop raises the TypeError, which is not retried and is what the call
\* raises.
C7_UnencodableRaisesNoRow ==
    /\ [](\A t \in Tasks :
            ~Encodable(rec[t]) =>
                /\ pc[t] \notin {"insert", "i_reserve", "commit", "returned"}
                /\ pending[t] = <<>>
                /\ \A i \in DOMAIN rows : rows[i].by # t)
    /\ [][\A t \in Tasks :
            (~Encodable(rec[t]) /\ pc'[t] # pc[t]) =>
                /\ pc[t] = "loop" => (pc'[t] = "w_exc" /\ exc'[t] = "TypeError")
                /\ pc[t] = "w_exc" => (pc'[t] = "w_close" /\ exc'[t] = "TypeError")
                /\ pc[t] = "w_close" => (pc'[t] = "raised" /\ exc'[t] = "TypeError")]_vars

C7_Witness ==
    \E t \in Tasks : ~Encodable(rec[t]) /\ pc[t] = "raised" /\ exc[t] = "TypeError"
                      /\ Len(rows) > 0

\* Concatenation of the sequences of a sequence, in order.
RECURSIVE Concat(_)
Concat(ss) == IF ss = <<>> THEN <<>> ELSE Head(ss) \o Concat(Tail(ss))

\* ceil(n / d) for d > 0
CeilDiv(n, d) == (n + d - 1) \div d

\* C8: for a list of length L and a positive size, chunk yields exactly
\* ceil(L/size) chunks, each a non-empty contiguous slice of at most size
\* elements, only the last possibly shorter, whose concatenation in order is
\* the list; an empty list yields no chunk.
C8_ListChunks ==
    (cState = "done" /\ cKind = "list" /\ cSize >= 1) =>
        /\ Len(cOut) = CeilDiv(Len(cData), cSize)
        /\ \A k \in DOMAIN cOut :
              /\ cOut[k] # <<>>
              /\ Len(cOut[k]) <= cSize
              /\ k < Len(cOut) => Len(cOut[k]) = cSize
              /\ cOut[k] = SubSeq(cData, (k - 1) * cSize + 1, (k - 1) * cSize + Len(cOut[k]))
        /\ Concat(cOut) = cData
        /\ cData = <<>> => cOut = <<>>

C8_Witness ==
    /\ cState = "done" /\ cKind = "list" /\ cSize >= 2
    /\ Len(cOut) >= 2
    /\ Len(cOut[Len(cOut)]) < cSize

\* C9: for a dict of L keys and a positive size, the k-th chunk (from 0)
\* holds the items k*size .. k*size+size-1 in iteration order, so that the
\* chunks are pairwise key-disjoint and their union in order is the dict.
C9_DictChunks ==
    (cState = "done" /\ cKind = "dict" /\ cSize >= 1) =>
        /\ \A k \in DOMAIN cOut :
              cOut[k] = SubSeq(cData, (k - 1) * cSize + 1, Min(k * cSize, Len(cData)))
        /\ \A j, k \in DOMAIN cOut :
              j # k => {cOut[j][i][1] : i \in DOMAIN cOut[j]}
                         \cap {cOut[k][i][1] : i \in DOMAIN cOut[k]} = {}
        /\ Concat(cOut) = cData

\* C10: for a list or a dict, the empty one included, chunk(data, 1) yields
\* one chunk per element holding exactly that element, and
\* chunk(data, len(data)) yields exactly one chunk, equal to data.
C10_SizeOneAndSizeLen ==
    /\ (cState = "done" /\ cSize = 1) =>
          /\ Len(cOut) = Len(cData)
          /\ \A k \in DOMAIN cOut : cOut[k] = <<cData[k]>>
    /\ (cState \in {"done", "error"} /\ cSize = Len(cData)) => cOut = <<cData>>

\* C11: chunk with size <= 0 is rejected at the call itself, before any
\* chunk is produced and before the iteration begins; it never ends having
\* silently yielded zero chunks.
C11_NonPositiveSizeRejectedAtCall ==
    cSize <= 0 => cState \notin {"created", "suspended", "done"}

\* C12: a call that is through with its schema step (create attempted,
\* error swallowed, or skipped) and opens the connection for inserting finds
\* the table results in the file.
C12_TableExistsAfterSchemaStep ==
    \A t \in Tasks : pc[t] = "w_connect" => schema > 0

RowsBy(t) == {i \in DOMAIN rows : rows[i].by = t}

\* C13: at the start of every iteration of the retry loop the connection
\* carries no uncommitted row of an earlier attempt, and a call commits
\* exactly one row however many attempts it needs.
C13_PartialAttemptDiscarded ==
    \A t \in Tasks :
        /\ pc[t] = "loop" => pending[t] = <<>>
        /\ Cardinality(RowsBy(t)) <= 1
        /\ pc[t] = "returned" => Cardinality(RowsBy(t)) = 1

\* C14: a committed row exists only if the table exists; row ids are
\* pairwise distinct and strictly increasing in commit order; every
\* committed row holds the complete serialization of the record of the call
\* that inserted it.
C14_StoreInvariant ==
    /\ rows # <<>> => schema > 0
    /\ \A i, j \in DOMAIN rows : i < j => rows[i].id < rows[j].id
    /\ \A i \in DOMAIN rows :
          /\ rows[i].by \in Tasks
          /\ Encodable(rec[rows[i].by])
          /\ rows[i].payload = Dumps(rec[rows[i].by])
          /\ pc[rows[i].by] \in {"w_close", "returned"}

C14_Witness ==
    /\ Len(rows) >= 3
    /\ \E t, u \in Tasks : t # u /\ RowsBy(t) # {} /\ RowsBy(u) # {}

\* C15: a call holds at most one open connection at a time, and a call that
\* has ended, returned or raised, from the schema step or the write step,
\* holds no open connection and no lock on the store.
C15_ScopedConnections ==
    \A t \in Tasks :
        /\ conns[t] \in {0, 1}
        /\ pc[t] \in {"returned", "raised"} =>
              (conns[t] = 0 /\ lock[t] = "none" /\ pending[t] = <<>>)

C15_Witness ==
    \E t, u \in Tasks :
        /\ pc[t] = "raised" /\ exc[t] = "DatabaseError" /\ attempts[t] = 1
        /\ pc[u] = "returned"

\* C16: a call whose existence check finds the path present performs no
\* schema action (it goes straight to the write step, opens no schema
\* connection, and the table definition changes only in the CREATE TABLE of
\* a call in its schema block); a call that finds the path absent enters
\* the schema block exactly once and never again once it has left it, also
\* when the error of its attempt was swallowed.
C16_SchemaStepOnlyWhenAbsent ==
    /\ [](\A t \in Tasks :
            /\ pc[t] \in {"start", "s_connect"} => attempts[t] = 0
            /\ pc[t] \in SchemaPcs \ {"start", "s_connect"} => attempts[t] = 1
            /\ attempts[t] \in {0, 1})
    /\ [][\A t \in Tasks :
            /\ (pc[t] = "start" /\ pc'[t] # "start") =>
                  pc'[t] = (IF fileExists THEN "w_connect" ELSE "s_connect")
            /\ pc[t] \notin SchemaPcs =>
                  (pc'[t] \notin SchemaPcs /\ attempts'[t] = attempts[t])]_vars
    /\ [][schema' # schema =>
            \E t \in Tasks : pc[t] = "s_excl" /\ attempts[t] = 1 /\ pc'[t] # pc[t]]_vars

C16_Witness ==
    \E t, u \in Tasks :
        /\ pc[t] = "returned" /\ attempts[t] = 0
        /\ pc[u] = "returned" /\ attempts[u] = 1

\* C17: for a non-empty ARM counter, after the None key is removed, the
\* sorted entries are split with size len // 3 + 1 into at most 3 tables,
\* each non-empty, which together hold every remaining entry exactly once in
\* sorted order; a counter left empty by the removal yields no table.
C17_ArmTables ==
    gPc = "done" =>
        /\ \A i \in DOMAIN gArm : gArm[i][1] # NoneKey
        /\ gArm # <<>> => cSize = Len(gArm) \div 3 + 1
        /\ Len(gGroup) <= 3
        /\ \A k \in DOMAIN gGroup : gGroup[k] # <<>>
        /\ Len(Concat(gGroup)) = Len(gArm)
        /\ \A i \in DOMAIN gArm : \E j \in DOMAIN Concat(gGroup) :
              Concat(gGroup)[j] = <<gArm[i][1], Str(gArm[i][2])>>
        /\ \A i, j \in DOMAIN Concat(gGroup) :
              i < j => Concat(gGroup)[i][1] < Concat(gGroup)[j][1]
        /\ gArm = <<>> => gGroup = <<>>

C17_Witness ==
    /\ gPc = "done"
    /\ Len(gGroup) = 3
    /\ Len(gGroup[3]) < Len(gGroup[1])

\* The classes reachable from the classes of S along __subclasses__,
\* S included.
RECURSIVE Reach(_)
Reach(S) ==
    IF UNION {hSubs[c] : c \in S} \subseteq S THEN S
    ELSE Reach(S \cup UNION {hSubs[c] : c \in S})

\* C18: on a finite acyclic hierarchy get_all_subclasses(cls) terminates
\* and returns exactly the strict descendants of cls, direct and transitive,
\* cls itself excluded; the result being a set, a class reached along
\* several inheritance paths is in it once.
C18_AllStrictDescendants ==
    /\ hPc = "call" => ENABLED GetAllSubclassesCall
    /\ hPc = "done" =>
          /\ hResult = Reach(hSubs[hCls])
          /\ hCls \notin hResult

C18_Witness ==
    /\ hPc = "done"
    /\ \E b, c, d \in Classes :
          /\ b # c
          /\ {b, c} \subseteq hSubs[hCls]
          /\ d \in hSubs[b] \cap hSubs[c]
          /\ d \notin hSubs[hCls]
          /\ d \in hResult

====
